---- MODULE Spec2Model ----
(***************************************************************************)
(* Request/response correlation of the HTTP routes in                      *)
(* api/src/routes/user.rs.  Every bus-backed endpoint mints a correlation  *)
(* id, builds a response filter and a capacity-one reply channel, sends    *)
(* them in one Envelope to the bus and then waits at most 5 seconds for a  *)
(* value on the reply channel.  The registry and the dispatcher that hold  *)
(* and evaluate the filters live in crate::comms.                          *)
(***************************************************************************)
EXTENDS Integers, Sequences, FiniteSets, TLC

\* Number of endpoint invocations (caller tasks) of one run.
MaxCalls == 2
\* Number of envelopes the bus holds between send and the comms task.
BusCap == 1
\* Number of deregister calls made on one handle.
MaxDeregs == 2
\* Duration::from_secs(5) of every timeout(..) call.
TimeoutSecs == 5

Calls == 1..MaxCalls

\* A correlation id that no call of this process minted.
ForeignId == MaxCalls + 1

\* recipient.len() > 128, payment_request.len() > 1024, meta.len() > 128.
MaxRecipientLen == 128
MaxPaymentRequestLen == 1024
MaxMetaLen == 128
\* "Lndhubx Invoice".len(), the meta of an invoice request that gives none.
DefaultMetaLen == 15

\* The endpoints a run invokes.
Endpoints == {"balance", "payinvoice"}

\* The endpoints that validate their input before they build a request.
ValidatedEndpoints == {"payinvoice", "addinvoice", "swap", "quote"}

\* The Api response variant each endpoint destructures from its reply channel.
ExpectedKind(endpoint) ==
    CASE endpoint = "balance" -> "Balances"
      [] endpoint = "payinvoice" -> "PaymentResponse"
      [] endpoint = "getavailablecurrencies" -> "AvailableCurrenciesResponse"
      [] endpoint = "addinvoice" -> "InvoiceResponse"
      [] endpoint = "swap" -> "SwapResponse"
      [] endpoint = "quote" -> "QuoteResponse"

ResponseKinds == {ExpectedKind(e) : e \in Endpoints}

\* Uuid::new_v4(): a fresh id per invocation, never reused.
NewReqId(c) == c

Messages == [kind : ResponseKinds, req_id : Calls \cup {ForeignId}]

\* The boxed closure each endpoint puts in its Envelope.  The closure of
\* /balance guards on the captured request's own id (get_balances.req_id ==
\* req_id), never on the message's; the others compare the message's id.
ResponseFilter(endpoint, req_id, message) ==
    CASE endpoint = "balance" ->
            LET get_balances == [req_id |-> req_id]
            IN  message.kind = "Balances" /\ get_balances.req_id = req_id
      [] endpoint = "payinvoice" ->
            message.kind = "PaymentResponse" /\ message.req_id = req_id
      [] endpoint = "getavailablecurrencies" ->
            /\ message.kind = "AvailableCurrenciesResponse"
            /\ message.req_id = req_id
      [] endpoint = "addinvoice" ->
            message.kind = "InvoiceResponse" /\ message.req_id = req_id
      [] endpoint = "swap" ->
            message.kind = "SwapResponse" /\ message.req_id = req_id
      [] endpoint = "quote" ->
            message.kind = "QuoteResponse" /\ message.req_id = req_id

\* Request data as the handlers read it: an Option is <<>> or <<v>>, a string
\* is its length, an amount is a whole number.
NoData ==
    [amount |-> <<>>, recipient |-> <<>>, payment_request |-> <<>>,
     meta |-> <<>>]

Data(endpoint) ==
    CASE endpoint = "payinvoice" ->
            [amount : {<<>>, <<-1>>, <<0>>, <<1>>},
             recipient : {<<>>, <<MaxRecipientLen>>, <<MaxRecipientLen + 1>>},
             payment_request : {<<>>, <<MaxPaymentRequestLen>>,
                                <<MaxPaymentRequestLen + 1>>},
             meta : {<<>>}]
      [] endpoint = "addinvoice" ->
            [amount : {<<-1>>, <<0>>, <<1>>},
             recipient : {<<>>},
             payment_request : {<<>>},
             meta : {<<>>, <<MaxMetaLen>>, <<MaxMetaLen + 1>>}]
      [] endpoint \in {"swap", "quote"} ->
            [amount : {<<-1>>, <<0>>, <<1>>},
             recipient : {<<>>},
             payment_request : {<<>>},
             meta : {<<>>}]
      [] OTHER -> {NoData}

\* Validate with a zero amount let through.
ValidateNegativeOnly(endpoint, data) ==
    CASE endpoint = "payinvoice" ->
            IF data.amount # <<>> /\ data.amount[1] < 0
            THEN "InvalidDataSupplied"
            ELSE IF /\ data.recipient # <<>>
                    /\ data.recipient[1] > MaxRecipientLen
            THEN "InvalidDataSupplied"
            ELSE IF /\ data.payment_request # <<>>
                    /\ data.payment_request[1] > MaxPaymentRequestLen
            THEN "InvalidDataSupplied"
            ELSE IF data.payment_request = <<>> /\ data.recipient = <<>>
            THEN "OkErrorBody"
            ELSE "proceed"
      [] endpoint = "addinvoice" ->
            LET meta == IF data.meta # <<>> THEN data.meta[1]
                                           ELSE DefaultMetaLen
            IN  IF data.amount[1] < 0 THEN "InvalidDataSupplied"
                ELSE IF meta > MaxMetaLen THEN "InvalidDataSupplied"
                ELSE "proceed"
      [] endpoint \in {"swap", "quote"} ->
            IF data.amount[1] < 0 THEN "InvalidDataSupplied" ELSE "proceed"
      [] OTHER -> "proceed"

\* Validate with the missing-target answer of /payinvoice ahead of the checks.
ValidateTargetFirst(endpoint, data) ==
    CASE endpoint = "payinvoice" ->
            IF data.payment_request = <<>> /\ data.recipient = <<>>
            THEN "OkErrorBody"
            ELSE IF data.amount # <<>> /\ data.amount[1] <= 0
            THEN "InvalidDataSupplied"
            ELSE IF /\ data.recipient # <<>>
                    /\ data.recipient[1] > MaxRecipientLen
            THEN "InvalidDataSupplied"
            ELSE IF /\ data.payment_request # <<>>
                    /\ data.payment_request[1] > MaxPaymentRequestLen
            THEN "InvalidDataSupplied"
            ELSE "proceed"
      [] endpoint = "addinvoice" ->
            LET meta == IF data.meta # <<>> THEN data.meta[1]
                                           ELSE DefaultMetaLen
            IN  IF data.amount[1] <= 0 THEN "InvalidDataSupplied"
                ELSE IF meta > MaxMetaLen THEN "InvalidDataSupplied"
                ELSE "proceed"
      [] endpoint \in {"swap", "quote"} ->
            IF data.amount[1] <= 0 THEN "InvalidDataSupplied" ELSE "proceed"
      [] OTHER -> "proceed"

\* What a handler does with its input before it builds the envelope, in the
\* order of its checks: return InvalidDataSupplied, return 200 with an error
\* body (/payinvoice without invoice and recipient), or go on to the send.
Validate(endpoint, data) ==
    CASE endpoint = "payinvoice" ->
            IF data.amount # <<>> /\ data.amount[1] <= 0
            THEN "InvalidDataSupplied"
            ELSE IF /\ data.recipient # <<>>
                    /\ data.recipient[1] > MaxRecipientLen
            THEN "InvalidDataSupplied"
            ELSE IF /\ data.payment_request # <<>>
                    /\ data.payment_request[1] > MaxPaymentRequestLen
            THEN "InvalidDataSupplied"
            ELSE IF data.payment_request = <<>> /\ data.recipient = <<>>
            THEN "OkErrorBody"
            ELSE "proceed"
      [] endpoint = "addinvoice" ->
            LET meta == IF data.meta # <<>> THEN data.meta[1]
                                           ELSE DefaultMetaLen
            IN  IF data.amount[1] <= 0 THEN "InvalidDataSupplied"
                ELSE IF meta > MaxMetaLen THEN "InvalidDataSupplied"
                ELSE "proceed"
      [] endpoint \in {"swap", "quote"} ->
            IF data.amount[1] <= 0 THEN "InvalidDataSupplied" ELSE "proceed"
      [] OTHER -> "proceed"

VARIABLES
    pc,         \* position of each caller task
    endpoint,   \* the endpoint each call invokes
    result,     \* what the handler returned
    payload,    \* the reply a successful handler serialised
    commsUp,    \* the comms task (bus receiver, owner of the registry) runs
    bus,        \* envelopes sent and not yet taken by the comms task
    registry,   \* live registrations (filter + response_tx), in arrival order
    chan,       \* buffer of each call's mpsc::channel(1)
    timer,      \* seconds left of each call's timeout(..), 0 when elapsed
    outbound,   \* request ids the backend has been given
    sendRes,    \* history: outcome of each call's bus send
    delivered,  \* history: values put on each call's reply channel
    waited,     \* history: the call entered timeout(.., response_rx.recv())
    expired,    \* history: the timer had elapsed when the handler returned
                \* ServerResponseTimeout
    dereg       \* history: deregister calls made on each call's handle

vars == <<pc, endpoint, result, payload, commsUp, bus, registry, chan, timer,
          outbound, sendRes, delivered, waited, expired, dereg>>

\* The Envelope of a call: response_tx and response_filter travel with the
\* request message.
Envelope(c) == [owner |-> c, endpoint |-> endpoint[c], req_id |-> NewReqId(c)]

Matches(reg, message) == ResponseFilter(reg.endpoint, reg.req_id, message)

\* response_rx is alive while its handler future is.
RxAlive(c) == pc[c] \in {"sending", "waiting"}

Registered(c) == \E i \in 1..Len(registry) : registry[i].owner = c

InBus(c) == \E i \in 1..Len(bus) : bus[i].owner = c

InFlight(c) == pc[c] \in {"sending", "waiting"}

Init ==
    /\ pc = [c \in Calls |-> "idle"]
    /\ endpoint = [c \in Calls |-> "balance"]
    /\ result = [c \in Calls |-> "none"]
    /\ payload = [c \in Calls |-> <<>>]
    /\ commsUp = TRUE
    /\ bus = <<>>
    /\ registry = <<>>
    /\ chan = [c \in Calls |-> <<>>]
    /\ timer = [c \in Calls |-> 0]
    /\ outbound = {}
    /\ sendRes = [c \in Calls |-> "none"]
    /\ delivered = [c \in Calls |-> 0]
    /\ waited = [c \in Calls |-> FALSE]
    /\ expired = [c \in Calls |-> FALSE]
    /\ dereg = [c \in Calls |-> 0]

\* Handler entry up to the first await: mint the id, check the input, and
\* either return at once or build filter, channel and message.
Invoke(c, e, d) ==
    /\ pc[c] = "idle"
    /\ endpoint' = [endpoint EXCEPT ![c] = e]
    /\ IF Validate(e, d) = "proceed"
       THEN /\ pc' = [pc EXCEPT ![c] = "sending"]
            /\ UNCHANGED result
       ELSE /\ pc' = [pc EXCEPT ![c] = "done"]
            /\ result' = [result EXCEPT ![c] = Validate(e, d)]
    /\ UNCHANGED <<commsUp, payload, bus, registry, chan, timer, outbound,
                   sendRes, delivered, waited, expired>>
    /\ UNCHANGED dereg

\* SendOk with the request handed to the backend on its own, ahead of the
\* filter and response_tx.
SendOkRequestFirst(c) ==
    /\ pc[c] = "sending"
    /\ commsUp
    /\ Len(bus) < BusCap
    /\ bus' = Append(bus, Envelope(c))
    /\ outbound' = outbound \cup {NewReqId(c)}
    /\ pc' = [pc EXCEPT ![c] = "waiting"]
    /\ timer' = [timer EXCEPT ![c] = TimeoutSecs]
    /\ sendRes' = [sendRes EXCEPT ![c] = "ok"]
    /\ waited' = [waited EXCEPT ![c] = TRUE]
    /\ UNCHANGED <<commsUp, endpoint, result, payload, registry, chan,
                   delivered, expired, dereg>>

\* .send(Envelope {..}).await returned Ok: the envelope is on the bus and the
\* handler goes on to timeout(Duration::from_secs(5), response_rx.recv()).
SendOk(c) ==
    /\ pc[c] = "sending"
    /\ commsUp
    /\ Len(bus) < BusCap
    /\ bus' = Append(bus, Envelope(c))
    /\ pc' = [pc EXCEPT ![c] = "waiting"]
    /\ timer' = [timer EXCEPT ![c] = TimeoutSecs]
    /\ sendRes' = [sendRes EXCEPT ![c] = "ok"]
    /\ waited' = [waited EXCEPT ![c] = TRUE]
    /\ UNCHANGED <<commsUp, endpoint, result, payload, registry, chan,
                   outbound, delivered, expired>>
    /\ UNCHANGED dereg

\* SendFail with the envelope left behind on the bus.
SendFailEnvelopeKept(c) ==
    /\ pc[c] = "sending"
    /\ ~commsUp
    /\ Len(bus) < BusCap
    /\ bus' = Append(bus, Envelope(c))
    /\ pc' = [pc EXCEPT ![c] = "done"]
    /\ result' = [result EXCEPT ![c] = "FailedToSendMessage"]
    /\ sendRes' = [sendRes EXCEPT ![c] = "failed"]
    /\ UNCHANGED <<commsUp, endpoint, payload, registry, chan, timer,
                   outbound, delivered, waited, expired>>
    /\ UNCHANGED dereg

\* SendFail reported with the timeout error kind.
SendFailAsTimeout(c) ==
    /\ pc[c] = "sending"
    /\ ~commsUp
    /\ pc' = [pc EXCEPT ![c] = "done"]
    /\ result' = [result EXCEPT ![c] = "ServerResponseTimeout"]
    /\ sendRes' = [sendRes EXCEPT ![c] = "failed"]
    /\ UNCHANGED <<commsUp, endpoint, payload, bus, registry, chan, timer,
                   outbound, delivered, waited, expired>>
    /\ UNCHANGED dereg

\* .send(..).await returned Err, which a channel send does only when its
\* receiver is gone: map_err + `?` return FailedToSendMessage; the envelope
\* (with response_tx and response_filter) is dropped with the error.
SendFail(c) ==
    /\ pc[c] = "sending"
    /\ ~commsUp
    /\ pc' = [pc EXCEPT ![c] = "done"]
    /\ result' = [result EXCEPT ![c] = "FailedToSendMessage"]
    /\ sendRes' = [sendRes EXCEPT ![c] = "failed"]
    /\ UNCHANGED <<commsUp, endpoint, payload, bus, registry, chan, timer,
                   outbound, delivered, waited, expired>>
    /\ UNCHANGED dereg

\* register(matcher, channel): insert into the live set.
Register(reg, env) == Append(reg, env)

\* The comms task takes the next envelope: its filter and response_tx become a
\* live registration and its request goes out to the backend.
Forward ==
    /\ commsUp
    /\ bus # <<>>
    /\ registry' = Register(registry, Head(bus))
    /\ outbound' = outbound \cup {Head(bus).req_id}
    /\ bus' = Tail(bus)
    /\ UNCHANGED <<commsUp, pc, endpoint, result, payload, chan, timer,
                   sendRes, delivered, waited, expired>>
    /\ UNCHANGED dereg

\* FirstMatch taking the last accepting registration.
FirstMatchTakesLast(reg, message) ==
    IF \E i \in 1..Len(reg) : Matches(reg[i], message)
    THEN CHOOSE i \in 1..Len(reg) :
            /\ Matches(reg[i], message)
            /\ \A j \in (i + 1)..Len(reg) : ~Matches(reg[j], message)
    ELSE 0

\* Index of the first live registration whose matcher accepts the message, 0
\* when there is none.
FirstMatch(reg, message) ==
    IF \E i \in 1..Len(reg) : Matches(reg[i], message)
    THEN CHOOSE i \in 1..Len(reg) :
            /\ Matches(reg[i], message)
            /\ \A j \in 1..(i - 1) : ~Matches(reg[j], message)
    ELSE 0

RemoveAt(reg, i) == SubSeq(reg, 1, i - 1) \o SubSeq(reg, i + 1, Len(reg))

\* dispatch(message): remove the first matching registration and attempt a
\* non-blocking delivery on its channel; without a match the message is
\* dropped.  A delivery to a closed or full channel fails silently.
Dispatch(message) ==
    /\ commsUp
    /\ message.req_id \in outbound \cup {ForeignId}
    /\ LET i == FirstMatch(registry, message)
       IN  IF i = 0
           THEN UNCHANGED <<registry, chan, delivered>>
           ELSE LET o == registry[i].owner
                IN  /\ registry' = RemoveAt(registry, i)
                    /\ IF RxAlive(o) /\ chan[o] = <<>>
                       THEN /\ chan' = [chan EXCEPT ![o] = <<message>>]
                            /\ delivered' = [delivered EXCEPT ![o] = @ + 1]
                       ELSE UNCHANGED <<chan, delivered>>
    /\ UNCHANGED <<commsUp, pc, endpoint, result, payload, bus, timer,
                   outbound, sendRes, waited, expired>>
    /\ UNCHANGED dereg

\* response_rx.recv() is ready inside timeout(..): the `if let` accepts only
\* Ok(Some(Ok(<expected variant>))); everything else falls through to
\* ServerResponseTimeout.
Receive(c) ==
    /\ pc[c] = "waiting"
    /\ chan[c] # <<>>
    /\ pc' = [pc EXCEPT ![c] = "done"]
    /\ chan' = [chan EXCEPT ![c] = <<>>]
    /\ IF Head(chan[c]).kind = ExpectedKind(endpoint[c])
       THEN /\ result' = [result EXCEPT ![c] = "Ok"]
            /\ payload' = [payload EXCEPT ![c] = chan[c]]
            /\ UNCHANGED expired
       ELSE /\ result' = [result EXCEPT ![c] = "ServerResponseTimeout"]
            /\ expired' = [expired EXCEPT ![c] = timer[c] = 0]
            /\ UNCHANGED payload
    /\ timer' = [timer EXCEPT ![c] = 0]
    /\ UNCHANGED <<commsUp, endpoint, bus, registry, outbound, sendRes,
                   delivered, waited>>
    /\ UNCHANGED dereg

\* TimerFired going back to the send instead of returning.
TimerFiredResends(c) ==
    /\ pc[c] = "waiting"
    /\ chan[c] = <<>>
    /\ timer[c] = 0
    /\ pc' = [pc EXCEPT ![c] = "sending"]
    /\ UNCHANGED <<commsUp, endpoint, result, payload, bus, registry, chan,
                   timer, outbound, sendRes, delivered, waited, expired,
                   dereg>>

\* timeout(..) returned Err(Elapsed): recv() was polled first and was pending,
\* and the deadline has passed.  The handler returns ServerResponseTimeout and
\* drops response_rx; it holds no handle on its registration.
TimerFired(c) ==
    /\ pc[c] = "waiting"
    /\ chan[c] = <<>>
    /\ timer[c] = 0
    /\ pc' = [pc EXCEPT ![c] = "done"]
    /\ result' = [result EXCEPT ![c] = "ServerResponseTimeout"]
    /\ expired' = [expired EXCEPT ![c] = timer[c] = 0]
    /\ timer' = [timer EXCEPT ![c] = 0]
    /\ UNCHANGED <<commsUp, endpoint, payload, bus, registry, chan, outbound,
                   sendRes, delivered, waited>>
    /\ UNCHANGED dereg

\* No response_tx is left: it travelled in the envelope and lives on the bus or
\* in the registry.
ChannelClosed(c) == ~Registered(c) /\ ~InBus(c)

\* RecvClosed taking the closed channel for a reply.
RecvClosedAsOk(c) ==
    /\ pc[c] = "waiting"
    /\ chan[c] = <<>>
    /\ ChannelClosed(c)
    /\ pc' = [pc EXCEPT ![c] = "done"]
    /\ result' = [result EXCEPT ![c] = "Ok"]
    /\ timer' = [timer EXCEPT ![c] = 0]
    /\ UNCHANGED <<commsUp, endpoint, payload, bus, registry, chan, outbound,
                   sendRes, delivered, waited, expired, dereg>>

\* response_rx.recv() returned None inside timeout(..): the channel is empty
\* and every sender is gone.  Ok(None) does not match the `if let`, so the
\* handler falls through to ServerResponseTimeout.
RecvClosed(c) ==
    /\ pc[c] = "waiting"
    /\ chan[c] = <<>>
    /\ ChannelClosed(c)
    /\ pc' = [pc EXCEPT ![c] = "done"]
    /\ result' = [result EXCEPT ![c] = "ServerResponseTimeout"]
    /\ expired' = [expired EXCEPT ![c] = timer[c] = 0]
    /\ timer' = [timer EXCEPT ![c] = 0]
    /\ UNCHANGED <<commsUp, endpoint, payload, bus, registry, chan, outbound,
                   sendRes, delivered, waited>>
    /\ UNCHANGED dereg

\* The comms task ends: the bus receiver is dropped with the envelopes still
\* queued, and the registry with every response_tx it holds.  From here on
\* every send to the bus fails.
CommsStop ==
    /\ commsUp
    /\ commsUp' = FALSE
    /\ bus' = <<>>
    /\ registry' = <<>>
    /\ UNCHANGED <<pc, endpoint, result, payload, chan, timer, outbound,
                   sendRes, delivered, waited, expired>>
    /\ UNCHANGED dereg

\* The handler future is dropped at one of its awaits (client went away):
\* response_rx is dropped with it, nothing is returned.
Cancel(c) ==
    /\ pc[c] \in {"sending", "waiting"}
    /\ pc' = [pc EXCEPT ![c] = "cancelled"]
    /\ chan' = [chan EXCEPT ![c] = <<>>]
    /\ timer' = [timer EXCEPT ![c] = 0]
    /\ UNCHANGED <<commsUp, endpoint, result, payload, bus, registry,
                   outbound, sendRes, delivered, waited, expired>>
    /\ UNCHANGED dereg

\* A second passes for every armed timer.
Tick ==
    /\ \E c \in Calls : pc[c] = "waiting" /\ timer[c] > 0
    /\ timer' = [c \in Calls |->
                    IF pc[c] = "waiting" /\ timer[c] > 0 THEN timer[c] - 1
                                                         ELSE timer[c]]
    /\ UNCHANGED <<commsUp, pc, endpoint, result, payload, bus, registry,
                   chan, outbound, sendRes, delivered, waited, expired>>
    /\ UNCHANGED dereg

\* deregister with a handle that is absent taking the oldest registration.
DeregisterOrOldest(reg, handle) ==
    IF \E i \in 1..Len(reg) : reg[i].owner = handle
    THEN SelectSeq(reg, LAMBDA r : r.owner # handle)
    ELSE IF reg = <<>> THEN reg ELSE Tail(reg)

\* deregister(handle): remove the handle's registration if it is there.
Deregister(reg, handle) == SelectSeq(reg, LAMBDA r : r.owner # handle)

\* deregister is called with the handle register returned for call c.
DeregisterStep(c) ==
    /\ NewReqId(c) \in outbound
    /\ dereg[c] < MaxDeregs
    /\ registry' = Deregister(registry, c)
    /\ dereg' = [dereg EXCEPT ![c] = @ + 1]
    /\ UNCHANGED <<pc, endpoint, result, payload, commsUp, bus, chan, timer,
                   outbound, sendRes, delivered, waited, expired>>

Next ==
    \/ \E c \in Calls, e \in Endpoints : \E d \in Data(e) : Invoke(c, e, d)
    \/ \E c \in Calls : SendOk(c)
    \/ \E c \in Calls : SendFail(c)
    \/ Forward
    \/ \E m \in Messages : Dispatch(m)
    \/ \E c \in Calls : Receive(c)
    \/ \E c \in Calls : TimerFired(c)
    \/ \E c \in Calls : RecvClosed(c)
    \/ CommsStop
    \/ \E c \in Calls : Cancel(c)
    \/ Tick

Spec == Init /\ [][Next]_vars

\* The registry on its own: envelopes arrive and are registered, messages are
\* dispatched, and handles are deregistered, in any order.
RegistryNext ==
    \/ \E c \in Calls, e \in Endpoints : \E d \in Data(e) : Invoke(c, e, d)
    \/ \E c \in Calls : SendOk(c)
    \/ Forward
    \/ \E m \in Messages : Dispatch(m)
    \/ \E c \in Calls : DeregisterStep(c)

RegistrySpec == Init /\ [][RegistryNext]_vars

\* Request submission on its own, for every endpoint that validates its
\* input: handlers start, return early or send, and the comms task registers
\* the envelopes or ends.
SubmissionNext ==
    \/ \E c \in Calls, e \in ValidatedEndpoints :
          \E d \in Data(e) : Invoke(c, e, d)
    \/ \E c \in Calls : SendOk(c)
    \/ \E c \in Calls : SendFail(c)
    \/ Forward
    \/ CommsStop

SubmissionSpec == Init /\ [][SubmissionNext]_vars

\* The registration a call's envelope creates.
RegOf(c) == Envelope(c)

TimedOut(c) == pc[c] = "done" /\ result[c] = "ServerResponseTimeout"

-----------------------------------------------------------------------------

\* C1: a reply whose embedded id is the id of call d is delivered only to
\* call d: no other call finds it on its reply channel or returns it as its
\* payload.
C1_ReplyOnlyToItsWaiter ==
    \A c \in Calls : \A d \in Calls :
        /\ (chan[c] # <<>> /\ Head(chan[c]).req_id = NewReqId(d)) => d = c
        /\ (payload[c] # <<>> /\ Head(payload[c]).req_id = NewReqId(d)) => d = c

\* C2: whenever a message is dispatched that the matcher of a live
\* registration accepts while its caller waits, the registering caller gets
\* exactly that message and the registration is gone afterwards; and no call
\* is ever delivered to twice.
C2_MatchDeliveredOnce ==
    /\ [][\A m \in Messages : \A c \in Calls :
            (Registered(c) /\ pc[c] = "waiting" /\ chan[c] = <<>>
                /\ Matches(RegOf(c), m) /\ Dispatch(m))
                => (~Registered(c)' /\ chan'[c] = <<m>>)]_vars
    /\ [](\A c \in Calls : delivered[c] <= 1)

\* C3: every live registration belongs to a call that is still in flight, so
\* the registry is never larger than the number of in-flight calls.
C3_NoRegistrationOutlivesCall ==
    /\ \A i \in 1..Len(registry) : InFlight(registry[i].owner)
    /\ Len(registry) <= Cardinality({c \in Calls : InFlight(c)})

\* C4: the step in which a waiting call returns ServerResponseTimeout leaves no
\* registration of that call in the registry.
C4_TimeoutLeavesNoRegistration ==
    [][\A c \in Calls :
          (pc[c] = "waiting" /\ TimedOut(c)')
              => ~Registered(c)']_vars

\* C5: a call whose bus send failed has returned FailedToSendMessage in that
\* very step, never entered the wait on its reply channel, and has neither a
\* registration nor an envelope left.
C5_SendFailureReturnsAtOnce ==
    \A c \in Calls :
        sendRes[c] = "failed"
            => /\ pc[c] = "done"
               /\ result[c] = "FailedToSendMessage"
               /\ ~waited[c]
               /\ ~Registered(c)
               /\ ~InBus(c)

C5_Witness ==
    \E c \in Calls : sendRes[c] = "failed" /\ result[c] = "FailedToSendMessage"

\* C6: a call that returned ServerResponseTimeout returned at or after its
\* deadline, and nothing was ever put on its reply channel.
C6_TimeoutOnlyAfterDeadline ==
    \A c \in Calls :
        result[c] = "ServerResponseTimeout"
            => /\ expired[c]
               /\ delivered[c] = 0

\* C7: FailedToSendMessage is returned exactly when the bus send failed, and
\* ServerResponseTimeout only by a call whose send succeeded and went on to
\* wait, and that got no reply on its channel.
C7_SendFailureNotTimeout ==
    \A c \in Calls :
        /\ result[c] = "FailedToSendMessage" <=> sendRes[c] = "failed"
        /\ result[c] = "ServerResponseTimeout"
              => /\ sendRes[c] = "ok"
                 /\ waited[c]
                 /\ delivered[c] = 0

C7_Witness ==
    \E c \in Calls : \E d \in Calls :
        /\ result[c] = "FailedToSendMessage"
        /\ result[d] = "ServerResponseTimeout"

\* C8: dispatch and timeout racing on one registration have exactly one
\* winner: a call that returned ServerResponseTimeout was delivered nothing and
\* a call that returned Ok was delivered once; and the dispatch of a message
\* that a timed-out call's matcher accepts finds that registration gone and
\* leaves it as it was.
C8_OneWinnerLoserNoOp ==
    /\ [](\A c \in Calls :
            /\ result[c] = "ServerResponseTimeout" => delivered[c] = 0
            /\ result[c] = "Ok" => delivered[c] = 1)
    /\ [][\A m \in Messages : \A c \in Calls :
            (TimedOut(c) /\ Matches(RegOf(c), m) /\ Dispatch(m))
                => (~Registered(c) /\ ~Registered(c)')]_vars

\* C9: while the /balance registration of id X is live and its caller waits,
\* the dispatch of a message with another id leaves that registration live,
\* the caller suspended and its channel untouched.
C9_OtherIdIgnored ==
    [][\A m \in Messages : \A c \in Calls :
          (/\ endpoint[c] = "balance"
           /\ Registered(c)
           /\ pc[c] = "waiting"
           /\ m.req_id # NewReqId(c)
           /\ Dispatch(m))
              => /\ Registered(c)'
                 /\ pc'[c] = "waiting"
                 /\ chan'[c] = chan[c]]_vars

\* C10: a dispatch removes exactly the first registration whose matcher
\* accepts the message and touches no channel but that registration's, on
\* which it puts at most that message; when no matcher accepts, registry,
\* channels and callers stay as they were.
C10_AtMostOneDelivery ==
    [][\A m \in Messages :
          Dispatch(m) =>
            LET M == {i \in 1..Len(registry) : Matches(registry[i], m)}
            IN  IF M = {}
                THEN /\ registry' = registry
                     /\ chan' = chan
                     /\ pc' = pc
                     /\ delivered' = delivered
                ELSE LET i == CHOOSE k \in M : \A j \in M : k <= j
                         o == registry[i].owner
                     IN  /\ Len(registry') = Len(registry) - 1
                         /\ \A k \in 1..Len(registry') :
                               registry'[k] = IF k < i THEN registry[k]
                                                       ELSE registry[k + 1]
                         /\ \A c \in Calls : c # o => chan'[c] = chan[c]
                         /\ chan'[o] \in {chan[o], <<m>>}
                         /\ pc' = pc]_vars

C10_Witness ==
    \E c \in Calls : \E d \in Calls :
        /\ c # d
        /\ chan[c] # <<>>
        /\ ~Registered(c)
        /\ Registered(d)
        /\ pc[d] = "waiting"
        /\ Matches(RegOf(d), Head(chan[c]))

\* C11: the dispatch of the reply to a call that has already abandoned its
\* wait (returned or cancelled after a successful send) puts nothing on any
\* reply channel and leaves every caller where it was.
C11_LateReplyIsNoOp ==
    [][\A m \in Messages : \A c \in Calls :
          (/\ pc[c] \in {"done", "cancelled"}
           /\ sendRes[c] = "ok"
           /\ m.req_id = NewReqId(c)
           /\ m.kind = ExpectedKind(endpoint[c])
           /\ Dispatch(m))
              => /\ chan' = chan
                 /\ delivered' = delivered
                 /\ pc' = pc]_vars

C13_DeregisterIdempotent ==
    [][\A c \in Calls :
          DeregisterStep(c)
              => /\ ~Registered(c)'
                 /\ ~Registered(c) => registry' = registry
                 /\ \A d \in Calls : d # c => (Registered(d)' <=> Registered(d))
                 /\ Len(registry') >= Len(registry) - 1
                 /\ Deregister(registry', c) = registry']_vars

C13_Witness ==
    \E c \in Calls : \E d \in Calls :
        /\ dereg[c] = 2
        /\ c # d
        /\ Registered(d)
        /\ delivered[c] = 1

\* C14: filter and response_tx travel in the request's own envelope, so a
\* request is never with the backend while its registration is still to be
\* created: the step that hands the request to the backend leaves its
\* registration live, and a message carrying a call's id is dispatched only
\* after that step.
C14_RegisteredBeforeVisible ==
    /\ [](\A c \in Calls :
            /\ InBus(c) => NewReqId(c) \notin outbound
            /\ pc[c] \in {"idle", "sending"} => NewReqId(c) \notin outbound)
    /\ [][\A c \in Calls :
            (NewReqId(c) \notin outbound /\ NewReqId(c) \in outbound')
                => (Registered(c)' /\ ~InBus(c)')]_vars
    /\ [][\A m \in Messages : \A c \in Calls :
            (m.req_id = NewReqId(c) /\ Dispatch(m))
                => (~InBus(c) /\ sendRes[c] = "ok")]_vars

C14_Witness ==
    \E c \in Calls :
        /\ NewReqId(c) \in outbound
        /\ Registered(c)
        /\ pc[c] = "waiting"
        /\ \E d \in Calls : InBus(d)

\* Envelopes of call c that are on the bus or in the registry.
EnvelopesOf(c) ==
    Cardinality({i \in 1..Len(bus) : bus[i].owner = c})
        + Cardinality({i \in 1..Len(registry) : registry[i].owner = c})

\* C15: a call sends at most one envelope and waits at most once: a handler
\* that has returned or was cancelled takes no further step, a send that has
\* had its outcome is not attempted again, and a call that left its wait does
\* not wait again.
C15_NoRetry ==
    /\ [](\A c \in Calls : EnvelopesOf(c) <= 1)
    /\ [][\A c \in Calls :
            /\ pc[c] \in {"done", "cancelled"}
                  => /\ pc'[c] = pc[c]
                     /\ result'[c] = result[c]
                     /\ InBus(c)' => InBus(c)
            /\ sendRes[c] # "none"
                  => /\ sendRes'[c] = sendRes[c]
                     /\ pc'[c] # "sending"
                     /\ EnvelopesOf(c)' <= EnvelopesOf(c)
            /\ (waited[c] /\ pc[c] # "waiting") => pc'[c] # "waiting"]_vars

C15_Witness ==
    \E c \in Calls : \E d \in Calls :
        /\ TimedOut(c)
        /\ expired[c]
        /\ pc[d] = "done"
        /\ sendRes[d] = "failed"
        /\ bus = <<>>

NothingSent(c) ==
    /\ sendRes[c] = "none"
    /\ ~waited[c]
    /\ ~InFlight(c)
    /\ NewReqId(c) \notin outbound
    /\ chan[c] = <<>>

\* The inputs the checks of a handler reject.
FailsValidation(e, d) ==
    \/ e \in ValidatedEndpoints /\ d.amount # <<>> /\ d.amount[1] <= 0
    \/ e = "payinvoice" /\ d.recipient # <<>>
          /\ d.recipient[1] > MaxRecipientLen
    \/ e = "payinvoice" /\ d.payment_request # <<>>
          /\ d.payment_request[1] > MaxPaymentRequestLen
    \/ e = "addinvoice" /\ d.meta # <<>> /\ d.meta[1] > MaxMetaLen

\* C17: when the input of pay_invoice, add_invoice, swap or quote fails
\* validation (amount <= 0, recipient longer than 128, payment_request longer
\* than 1024, meta longer than 128) the handler returns InvalidDataSupplied at
\* once, with bus, registry and reply channels unchanged, and a call that
\* returned InvalidDataSupplied has sent nothing.
C17_InvalidInputSendsNothing ==
    /\ [][\A c \in Calls, e \in ValidatedEndpoints : \A d \in Data(e) :
            (Invoke(c, e, d) /\ FailsValidation(e, d))
                => /\ pc'[c] = "done"
                   /\ result'[c] = "InvalidDataSupplied"
                   /\ bus' = bus
                   /\ registry' = registry
                   /\ chan' = chan
                   /\ outbound' = outbound]_vars
    /\ [](\A c \in Calls :
            result[c] = "InvalidDataSupplied"
                => pc[c] = "done" /\ NothingSent(c))

C17_Witness ==
    \E c, d \in Calls :
        /\ result[c] = "InvalidDataSupplied"
        /\ endpoint[c] = "addinvoice"
        /\ NothingSent(c)
        /\ Registered(d)

\* C18: pay_invoice with neither payment_request nor recipient returns 200
\* with an error body when the amount is absent or positive, and
\* InvalidDataSupplied when the amount is present and <= 0; either way it
\* sends nothing to the bus and never waits.
C18_MissingTargetAnswered ==
    /\ [][\A c \in Calls : \A d \in Data("payinvoice") :
            (/\ Invoke(c, "payinvoice", d)
             /\ d.payment_request = <<>>
             /\ d.recipient = <<>>)
                => /\ pc'[c] = "done"
                   /\ result'[c] = IF d.amount # <<>> /\ d.amount[1] <= 0
                                    THEN "InvalidDataSupplied"
                                    ELSE "OkErrorBody"
                   /\ bus' = bus
                   /\ registry' = registry
                   /\ chan' = chan
                   /\ outbound' = outbound]_vars
    /\ [](\A c \in Calls :
            result[c] = "OkErrorBody"
                => /\ pc[c] = "done"
                   /\ endpoint[c] = "payinvoice"
                   /\ NothingSent(c))

C18_Witness ==
    \E c, d \in Calls :
        /\ result[c] = "OkErrorBody"
        /\ NothingSent(c)
        /\ result[d] = "InvalidDataSupplied"
        /\ endpoint[d] = "payinvoice"

====
